---- MODULE Spec2Model ----
(***************************************************************************)
(* Model of src/main.rs: a terminal dashboard that connects to PostgreSQL, *)
(* puts the terminal in raw mode and then loops: fetch pg_stat_all_tables, *)
(* draw the table, wait for the interval tick, poll the keyboard once and  *)
(* leave the loop on 'q'.  Every `?` of main is an early return of Err,    *)
(* `expect` and `Row::get` on a null are panics.                           *)
(***************************************************************************)
EXTENDS Integers, Sequences, FiniteSets, TLC

VARIABLES
    pc,           \* position of main
    dbUrl,        \* the environment variable DATABASE_URL
    conn,         \* the client handle: "none", "open", "failed"
    connTask,     \* the spawned connection future: "none", "created", "running", "ended"
    rawMode,      \* the terminal's raw mode
    enableCalls,  \* calls of enable_raw_mode so far
    disableCalls, \* calls of disable_raw_mode so far
    terminal,     \* whether Terminal::new has returned a terminal
    rows,         \* the local `rows` of the loop body
    queryLog,     \* the outcome of every client.query executed, in order
    frameLog,     \* every frame submitted by terminal.draw, in order
    tick,         \* loop iterations started
    waits,        \* completed interval.tick() calls
    polls,        \* completed event::poll calls
    input,        \* pending terminal events, oldest first
    typed,        \* every event the operator has produced, with the time
    quitAt,       \* the iteration whose input check took the break, 0 if none
    result,       \* what main returned: "running", "Ok", "Err_*" or "panic"
    now,          \* the clock, in milliseconds
    deadline,     \* the instant of the interval's next tick
    fetchAt,      \* the instant every client.query was issued, in order
    waitAt        \* when every interval.tick() was awaited and when it returned

vars == <<pc, dbUrl, conn, connTask, rawMode, enableCalls, disableCalls,
          terminal, rows, queryLog, frameLog, tick, waits, polls, input,
          typed, quitAt, result, now, deadline, fetchAt, waitAt>>

timeVars == <<now, deadline, fetchAt, waitAt>>

\* ------------------------------------------------------------------ bounds
MaxTicks == 2
MaxPress == 2
\* Longest record sequence drawn from the record pool.
MaxRecs == 3

\* Longest time the clock is followed while queries and draws take time.
MaxTime == 3000

\* ------------------------------------------------------ program constants
\* LIMIT 15 of the query
QueryLimit == 15
\* the columns the query selects
ColumnCount == 9
\* time::interval(Duration::from_secs(2)), in milliseconds
Period == 2000
\* event::poll(Duration::from_millis(200))
PollWindow == 200

\* ------------------------------------------------- tokio::time::Interval
Max(a, b) == IF a >= b THEN a ELSE b

\* The first tick of time::interval is due at once.
FirstDeadline(t) == t

\* interval.tick() returns at its deadline, at once when that has passed.
TickReturns(dl, t) == Max(dl, t)

\* The default MissedTickBehavior::Burst keeps the original schedule.
NextDeadline_delay(dl, t) == Max(dl, t) + Period
NextDeadline(dl, t) == dl + Period

\* ------------------------------------------------------------ Option<T>
None == <<>>
Some(v) == <<v>>
UnwrapOr(o, d) == IF o = None THEN d ELSE o[1]

\* ------------------------------------------------------- i64::to_string
DigitChar(d) ==
    CASE d = 0 -> "0" [] d = 1 -> "1" [] d = 2 -> "2" [] d = 3 -> "3"
      [] d = 4 -> "4" [] d = 5 -> "5" [] d = 6 -> "6" [] d = 7 -> "7"
      [] d = 8 -> "8" [] d = 9 -> "9"

RECURSIVE NatToString(_)
NatToString(n) ==
    IF n < 10 THEN DigitChar(n)
    ELSE NatToString(n \div 10) \o DigitChar(n % 10)

I64ToString_noZero(n) ==
    IF n = 0 THEN "" ELSE IF n < 0 THEN "-" \o NatToString(0 - n) ELSE NatToString(n)

I64ToString(n) == IF n < 0 THEN "-" \o NatToString(0 - n) ELSE NatToString(n)

\* ------------------------------------------------- the monitored view
NumericColumns ==
    <<"idx_tup_fetch", "n_tup_ins", "n_tup_upd", "n_tup_del",
      "n_tup_hot_upd", "n_live_tup", "n_dead_tup">>

StringColumns == <<"schemaname", "relname">>

\* Records the query can return (at most 15, ordered by n_tup_ins desc).
RecOrders ==
    [schemaname |-> Some("public"), relname |-> Some("orders"),
     idx_tup_fetch |-> Some(120), n_tup_ins |-> Some(45),
     n_tup_upd |-> Some(7), n_tup_del |-> None, n_tup_hot_upd |-> Some(0),
     n_live_tup |-> Some(38), n_dead_tup |-> Some(2)]

RecPgClass ==
    [schemaname |-> Some("pg_catalog"), relname |-> Some("pg_class"),
     idx_tup_fetch |-> None, n_tup_ins |-> Some(3),
     n_tup_upd |-> Some(10), n_tup_del |-> Some(0), n_tup_hot_upd |-> None,
     n_live_tup |-> Some(415), n_dead_tup |-> None]

RecNoSchema ==
    [schemaname |-> None, relname |-> Some("orphan"),
     idx_tup_fetch |-> Some(1), n_tup_ins |-> Some(1),
     n_tup_upd |-> None, n_tup_del |-> None, n_tup_hot_upd |-> None,
     n_live_tup |-> Some(1), n_dead_tup |-> Some(0)]

RecordSets == {<<>>, <<RecOrders>>, <<RecOrders, RecPgClass>>, <<RecNoSchema>>}

\* A wider range of what the view can hold: every numeric column null,
\* zero or a value of its own, every string column present or null.
SampleValue == <<120, 45, 7, 9, 10, 2147483647, 38>>

NumericChoices(j) == {None, Some(0), Some(SampleValue[j])}

WideRecords ==
    [schemaname : {Some("public"), None},
     relname : {Some("orders"), None},
     idx_tup_fetch : NumericChoices(1), n_tup_ins : NumericChoices(2),
     n_tup_upd : NumericChoices(3), n_tup_del : NumericChoices(4),
     n_tup_hot_upd : NumericChoices(5), n_live_tup : NumericChoices(6),
     n_dead_tup : NumericChoices(7)]

RecFull ==
    [schemaname |-> Some("public"), relname |-> Some("events"),
     idx_tup_fetch |-> Some(120), n_tup_ins |-> Some(45),
     n_tup_upd |-> Some(7), n_tup_del |-> Some(9), n_tup_hot_upd |-> Some(10),
     n_live_tup |-> Some(2147483647), n_dead_tup |-> Some(38)]

RecOneNull == [RecFull EXCEPT !.relname = Some("audit"), !.n_live_tup = None]

RecordPool == {RecOrders, RecPgClass, RecFull, RecOneNull}

\* ORDER BY n_tup_ins desc: nulls come first.
SortedDesc(recs) ==
    \A i, j \in 1..Len(recs) :
        i < j => \/ recs[i].n_tup_ins = None
                 \/ /\ recs[j].n_tup_ins # None
                    /\ recs[i].n_tup_ins[1] >= recs[j].n_tup_ins[1]

FullPage == [i \in 1..QueryLimit |-> RecFull]

WideRecordSets ==
    {<<>>, FullPage}
        \cup {<<r>> : r \in WideRecords}
        \cup {rs \in UNION {[1..n -> RecordPool] : n \in 2..MaxRecs} :
                SortedDesc(rs)}

QueryOk(recs) == [ok |-> TRUE, recs |-> recs]
QueryErr == [ok |-> FALSE, recs |-> <<>>]
QueryResults == {QueryOk(rs) : rs \in RecordSets} \cup {QueryErr}

\* ------------------------------------------- fetch_pg_stat_all_tables
\* row.get::<_, &str>(col) panics when the field is null.
GetStrPanics(rec) == \E i \in 1..Len(StringColumns) : rec[StringColumns[i]] = None

RowPanics(recs) == \E i \in 1..Len(recs) : GetStrPanics(recs[i])

RowOf_skipNulls(rec) ==
    LET present == SelectSeq([i \in 1..Len(NumericColumns) |-> i],
                             LAMBDA i : rec[NumericColumns[i]] # None)
    IN  <<rec.schemaname[1], rec.relname[1]>> \o
        [k \in 1..Len(present) |->
            I64ToString(rec[NumericColumns[present[k]]][1])]

RowOf(rec) ==
    <<rec.schemaname[1], rec.relname[1]>> \o
    [i \in 1..Len(NumericColumns) |-> I64ToString(UnwrapOr(rec[NumericColumns[i]], 0))]

FetchRows(recs) == [i \in 1..Len(recs) |-> RowOf(recs[i])]

\* What fetch_pg_stat_all_tables(...).await? yields for a query result.
FetchOutcome_swallow(res) == IF res.ok /\ RowPanics(res.recs) THEN "panic" ELSE "Ok"
FetchOutcome(res) ==
    IF ~res.ok THEN "Err_query"
    ELSE IF RowPanics(res.recs) THEN "panic"
    ELSE "Ok"

\* ------------------------------------------------------- terminal.draw
Header ==
    <<"Schema", "Table", "Index Fetch", "Tuples Inserted", "Tuples Updated",
      "Tuples Deleted", "Hot Updates", "Live Tuples", "Dead Tuples">>

Widths == <<15, 15, 10, 10, 10, 10, 10, 10, 10>>

TableFrame_cap10(rws) ==
    [title |-> "PostgreSQL Table Statistics Monitor",
     header |-> Header, widths |-> Widths,
     rows |-> SubSeq(rws, 1, IF Len(rws) < 10 THEN Len(rws) ELSE 10)]

TableFrame(rws) ==
    [title |-> "PostgreSQL Table Statistics Monitor",
     header |-> Header, widths |-> Widths, rows |-> rws]

\* ------------------------------------------------------- input events
KeyQ == [type |-> "Key", code |-> "q"]
KeyX == [type |-> "Key", code |-> "x"]
Resize == [type |-> "Resize", code |-> ""]
Events == {KeyQ, KeyX, Resize}

IsQuit_none(ev) == FALSE
IsQuit_anykey(ev) == ev.type = "Key"
IsQuit(ev) == ev.type = "Key" /\ ev.code = "q"

\* event::read takes the oldest pending event off the queue.
Consume_peek(q) == q
Consume_all(q) == <<>>
Consume(q) == Tail(q)

\* Where the loop goes after event::poll returned Ok(pending).
AfterPoll_redraw(pending) == IF pending THEN "read" ELSE "draw"
AfterPoll(pending) == IF pending THEN "read" ELSE "fetch"

\* ------------------------------------------------- the process's exit
ExitCode(r) ==
    CASE r = "running" -> -1
      [] r = "Ok" -> 0
      [] r = "panic" -> 101
      [] OTHER -> 1

Exit(r) == pc' = "exited" /\ result' = r

EnvVarOk_default(url) == TRUE
EnvVarOk(url) == url = "set"

\* --------------------------------------------------------------- Init
Init ==
    /\ pc = "start"
    /\ dbUrl \in {"unset", "not_unicode", "set"}
    /\ conn = "none"
    /\ connTask = "none"
    /\ rawMode = FALSE
    /\ enableCalls = 0
    /\ disableCalls = 0
    /\ terminal = FALSE
    /\ rows = <<>>
    /\ queryLog = <<>>
    /\ frameLog = <<>>
    /\ tick = 0
    /\ waits = 0
    /\ polls = 0
    /\ input = <<>>
    /\ typed = <<>>
    /\ quitAt = 0
    /\ result = "running"
    /\ now = 0
    /\ deadline = 0
    /\ fetchAt = <<>>
    /\ waitAt = <<>>

\* ------------------------------------------------------------ startup
ReadEnv ==
    /\ pc = "start"
    /\ IF EnvVarOk(dbUrl)
       THEN pc' = "connect" /\ UNCHANGED result
       ELSE Exit("panic")
    /\ UNCHANGED <<dbUrl, conn, connTask, rawMode, enableCalls, disableCalls,
                   terminal, rows, queryLog, frameLog, tick, waits, polls,
                   input, typed, quitAt>>
    /\ UNCHANGED timeVars

Connect ==
    /\ pc = "connect"
    /\ \E ok \in BOOLEAN :
         IF ok
         THEN /\ conn' = "open"
              /\ connTask' = "created"
              /\ pc' = "spawn"
              /\ UNCHANGED result
         ELSE /\ conn' = "failed"
              /\ UNCHANGED connTask
              /\ Exit("Err_connect")
    /\ UNCHANGED <<dbUrl, rawMode, enableCalls, disableCalls, terminal, rows,
                   queryLog, frameLog, tick, waits, polls, input, typed, quitAt>>
    /\ UNCHANGED timeVars

Spawn ==
    /\ pc = "spawn"
    /\ connTask' = "running"
    /\ pc' = "enable_raw"
    /\ UNCHANGED <<dbUrl, conn, rawMode, enableCalls, disableCalls, terminal,
                   rows, queryLog, frameLog, tick, waits, polls, input, typed,
                   quitAt, result>>
    /\ UNCHANGED timeVars

EnableRaw_errorIgnored ==
    /\ pc = "enable_raw"
    /\ enableCalls' = enableCalls + 1
    /\ \E ok \in BOOLEAN :
         IF ok
         THEN rawMode' = TRUE /\ pc' = "new_terminal" /\ UNCHANGED result
         ELSE UNCHANGED rawMode /\ pc' = "new_terminal" /\ UNCHANGED result
    /\ UNCHANGED <<dbUrl, conn, connTask, disableCalls, terminal, rows,
                   queryLog, frameLog, tick, waits, polls, input, typed, quitAt>>
    /\ UNCHANGED timeVars

EnableRaw ==
    /\ pc = "enable_raw"
    /\ enableCalls' = enableCalls + 1
    /\ \E ok \in BOOLEAN :
         IF ok
         THEN rawMode' = TRUE /\ pc' = "new_terminal" /\ UNCHANGED result
         ELSE UNCHANGED rawMode /\ Exit("Err_enable_raw")
    /\ UNCHANGED <<dbUrl, conn, connTask, disableCalls, terminal, rows,
                   queryLog, frameLog, tick, waits, polls, input, typed, quitAt>>
    /\ UNCHANGED timeVars

NewTerminal ==
    /\ pc = "new_terminal"
    /\ \E ok \in BOOLEAN :
         IF ok
         THEN terminal' = TRUE /\ pc' = "interval" /\ UNCHANGED result
         ELSE UNCHANGED terminal /\ Exit("Err_terminal")
    /\ UNCHANGED <<dbUrl, conn, connTask, rawMode, enableCalls, disableCalls,
                   rows, queryLog, frameLog, tick, waits, polls, input, typed,
                   quitAt>>
    /\ UNCHANGED timeVars

MakeInterval ==
    /\ pc = "interval"
    /\ pc' = "fetch"
    /\ UNCHANGED <<dbUrl, conn, connTask, rawMode, enableCalls, disableCalls,
                   terminal, rows, queryLog, frameLog, tick, waits, polls,
                   input, typed, quitAt, result>>
    /\ deadline' = FirstDeadline(now)
    /\ UNCHANGED <<now, fetchAt, waitAt>>

\* ----------------------------------------------------------- the loop
\* client.query hands the request to the connection task; with the task
\* gone the request is refused at once.
\* The request channel to the connection task is open while the task runs.
RequestAccepted_always(task) == TRUE
RequestAccepted(task) == task = "running"

FetchStart ==
    /\ pc = "fetch"
    /\ tick < MaxTicks
    /\ tick' = tick + 1
    /\ IF RequestAccepted(connTask)
       THEN pc' = "query" /\ UNCHANGED <<queryLog, result>>
       ELSE queryLog' = Append(queryLog, QueryErr) /\ Exit("Err_query")
    /\ UNCHANGED <<dbUrl, conn, connTask, rawMode, enableCalls, disableCalls,
                   terminal, rows, frameLog, waits, polls, input, typed, quitAt>>
    /\ fetchAt' = Append(fetchAt, now)
    /\ UNCHANGED <<now, deadline, waitAt>>

FetchDoneWith(res) ==
    /\ pc = "query"
    /\ queryLog' = Append(queryLog, res)
    /\ IF FetchOutcome(res) = "Ok"
       THEN rows' = FetchRows(res.recs) /\ pc' = "draw" /\ UNCHANGED result
       ELSE UNCHANGED rows /\ Exit(FetchOutcome(res))
    /\ UNCHANGED <<dbUrl, conn, connTask, rawMode, enableCalls, disableCalls,
                   terminal, frameLog, tick, waits, polls, input, typed, quitAt>>
    /\ UNCHANGED timeVars

FetchDone == \E res \in QueryResults : FetchDoneWith(res)

\* `rows` is moved into the table widget.
Draw ==
    /\ pc = "draw"
    /\ \E ok \in BOOLEAN :
         IF ok
         THEN /\ frameLog' = Append(frameLog, TableFrame(rows))
              /\ pc' = "wait"
              /\ UNCHANGED result
         ELSE UNCHANGED frameLog /\ Exit("Err_draw")
    /\ rows' = <<>>
    /\ UNCHANGED <<dbUrl, conn, connTask, rawMode, enableCalls, disableCalls,
                   terminal, queryLog, tick, waits, polls, input, typed, quitAt>>
    /\ UNCHANGED timeVars

Wait ==
    /\ pc = "wait"
    /\ waits' = waits + 1
    /\ pc' = "poll"
    /\ UNCHANGED <<dbUrl, conn, connTask, rawMode, enableCalls, disableCalls,
                   terminal, rows, queryLog, frameLog, tick, polls, input,
                   typed, quitAt, result>>
    /\ now' = TickReturns(deadline, now)
    /\ deadline' = NextDeadline(deadline, now)
    /\ waitAt' = Append(waitAt, [from |-> now, to |-> TickReturns(deadline, now)])
    /\ UNCHANGED fetchAt

\* event::poll(200ms): true when an event is pending by the end of the window.
Poll ==
    /\ pc = "poll"
    /\ polls' = polls + 1
    /\ \E ok \in BOOLEAN :
         IF ok
         THEN /\ pc' = AfterPoll(input # <<>>)
              /\ now' = IF input # <<>> THEN now ELSE now + PollWindow
              /\ UNCHANGED result
         ELSE UNCHANGED now /\ Exit("Err_poll")
    /\ UNCHANGED <<dbUrl, conn, connTask, rawMode, enableCalls, disableCalls,
                   terminal, rows, queryLog, frameLog, tick, waits, input,
                   typed, quitAt>>
    /\ UNCHANGED <<deadline, fetchAt, waitAt>>

Read ==
    /\ pc = "read"
    /\ \E ok \in BOOLEAN :
         IF ok
         THEN /\ input' = Consume(input)
              /\ IF IsQuit(Head(input))
                 THEN pc' = "disable" /\ quitAt' = tick
                 ELSE pc' = "fetch" /\ UNCHANGED quitAt
              /\ UNCHANGED result
         ELSE UNCHANGED <<input, quitAt>> /\ Exit("Err_read")
    /\ UNCHANGED <<dbUrl, conn, connTask, rawMode, enableCalls, disableCalls,
                   terminal, rows, queryLog, frameLog, tick, waits, polls, typed>>
    /\ UNCHANGED timeVars

\* ------------------------------------------------------ after the loop
Disable_skipped ==
    /\ pc = "disable"
    /\ Exit("Ok")
    /\ UNCHANGED <<dbUrl, conn, connTask, rawMode, enableCalls, disableCalls,
                   terminal, rows, queryLog, frameLog, tick, waits, polls,
                   input, typed, quitAt>>
    /\ UNCHANGED timeVars

Disable_errorIgnored ==
    /\ pc = "disable"
    /\ disableCalls' = disableCalls + 1
    /\ \E ok \in BOOLEAN :
         IF ok
         THEN rawMode' = FALSE /\ Exit("Ok")
         ELSE UNCHANGED rawMode /\ Exit("Ok")
    /\ UNCHANGED <<dbUrl, conn, connTask, enableCalls, terminal, rows,
                   queryLog, frameLog, tick, waits, polls, input, typed, quitAt>>
    /\ UNCHANGED timeVars

Disable ==
    /\ pc = "disable"
    /\ disableCalls' = disableCalls + 1
    /\ \E ok \in BOOLEAN :
         IF ok
         THEN rawMode' = FALSE /\ Exit("Ok")
         ELSE UNCHANGED rawMode /\ Exit("Err_disable_raw")
    /\ UNCHANGED <<dbUrl, conn, connTask, enableCalls, terminal, rows,
                   queryLog, frameLog, tick, waits, polls, input, typed, quitAt>>
    /\ UNCHANGED timeVars

\* ------------------------------------------------------ the environment
Press ==
    /\ pc # "exited"
    /\ Len(typed) < MaxPress
    /\ \E ev \in Events :
         /\ input' = Append(input, ev)
         /\ typed' = Append(typed, [ev |-> ev, tick |-> tick, polls |-> polls])
    /\ UNCHANGED <<pc, dbUrl, conn, connTask, rawMode, enableCalls,
                   disableCalls, terminal, rows, queryLog, frameLog, tick,
                   waits, polls, quitAt, result>>
    /\ UNCHANGED timeVars

\* The spawned future `connection.await` returns (transport closed or failed).
ConnTaskEnd ==
    /\ pc # "exited"
    /\ connTask = "running"
    /\ connTask' = "ended"
    /\ UNCHANGED <<pc, dbUrl, conn, rawMode, enableCalls, disableCalls,
                   terminal, rows, queryLog, frameLog, tick, waits, polls,
                   input, typed, quitAt, result>>
    /\ UNCHANGED timeVars

MainStep ==
    \/ ReadEnv \/ Connect \/ Spawn \/ EnableRaw \/ NewTerminal \/ MakeInterval
    \/ FetchStart \/ FetchDone \/ Draw \/ Wait \/ Poll \/ Read \/ Disable

Next == MainStep \/ Press \/ ConnTaskEnd

Spec == Init /\ [][Next]_vars

\* How long a query or a draw can take, in milliseconds.
Delays == {3000}

\* Time passes while the query is in flight or the frame is drawn.
Elapse ==
    /\ pc \in {"query", "draw"}
    /\ \E d \in Delays :
         /\ now + d <= MaxTime
         /\ now' = now + d
    /\ UNCHANGED <<pc, dbUrl, conn, connTask, rawMode, enableCalls,
                   disableCalls, terminal, rows, queryLog, frameLog, tick,
                   waits, polls, input, typed, quitAt, result, deadline,
                   fetchAt, waitAt>>

TimedNext == Next \/ Elapse

TimedSpec == Init /\ [][TimedNext]_vars

\* One pass of the loop body over the wide range of query results, from
\* the point where the first query is in flight.
FetchInit ==
    /\ pc = "query"
    /\ dbUrl = "set"
    /\ conn = "open"
    /\ connTask = "running"
    /\ rawMode = TRUE
    /\ enableCalls = 1
    /\ disableCalls = 0
    /\ terminal = TRUE
    /\ rows = <<>>
    /\ queryLog = <<>>
    /\ frameLog = <<>>
    /\ tick = 1
    /\ waits = 0
    /\ polls = 0
    /\ input = <<>>
    /\ typed = <<>>
    /\ quitAt = 0
    /\ result = "running"
    /\ now = 0
    /\ deadline = 0
    /\ fetchAt = <<0>>
    /\ waitAt = <<>>

FetchWide == \E rs \in WideRecordSets : FetchDoneWith(QueryOk(rs))

FetchNext == FetchWide \/ Draw

FetchSpec == FetchInit /\ [][FetchNext]_vars

\* The runtime keeps polling main's future: every step of main that can be
\* taken is taken.
LiveSpec == Spec /\ WF_vars(MainStep)

TypeOK ==
    /\ pc \in {"start", "connect", "spawn", "enable_raw", "new_terminal",
               "interval", "fetch", "query", "draw", "wait", "poll", "read",
               "disable", "exited"}
    /\ dbUrl \in {"unset", "not_unicode", "set"}
    /\ conn \in {"none", "open", "failed"}
    /\ connTask \in {"none", "created", "running", "ended"}
    /\ rawMode \in BOOLEAN
    /\ terminal \in BOOLEAN
    /\ enableCalls \in 0..1
    /\ disableCalls \in 0..1
    /\ tick \in 0..MaxTicks
    /\ waits \in 0..MaxTicks
    /\ polls \in 0..MaxTicks
    /\ quitAt \in 0..MaxTicks
    /\ Len(typed) <= MaxPress
    /\ Len(input) <= Len(typed)
    /\ (pc = "exited") = (result # "running")

\* ------------------------------------------------------- vocabulary
InLoop == pc \in {"fetch", "query", "draw", "wait", "poll", "read"}

\* fetch_pg_stat_all_tables returned Ok for this query result.
QuerySucceeded(res) == res.ok /\ ~RowPanics(res.recs)

\* The events event::read has returned so far.
Consumed == SubSeq(typed, 1, Len(typed) - Len(input))

QObserved == \E i \in 1..Len(Consumed) : Consumed[i].ev = KeyQ

FetchFailures == {"Err_query", "panic"}
TerminalFailures == {"Err_terminal", "Err_draw", "Err_poll", "Err_read"}

\* ---------------------------------------------------------------- C1
\* C1: a run that ended because fetch_pg_stat_all_tables returned Err in
\* the loop has had disable_raw_mode called and raw mode is off.
C1_FetchErrorRestoresTerminal ==
    (pc = "exited" /\ result = "Err_query") => (disableCalls > 0 /\ ~rawMode)

\* ---------------------------------------------------------------- C2
\* C2: a run that ended on a terminal error after raw mode was enabled
\* (Terminal::new, draw, poll or read failed) has had disable_raw_mode
\* called.
C2_TerminalErrorRestoresTerminal ==
    (pc = "exited" /\ result \in TerminalFailures) => disableCalls > 0

\* ---------------------------------------------------------------- C3
\* C3: once the input check has read the key 'q', the loop has been left
\* in that same tick: main is at disable_raw_mode or has exited, and no
\* fetch, draw or poll was started after the poll that found the key.
C3_QuitLeavesLoopAtOnce ==
    QObserved =>
        /\ pc \in {"disable", "exited"}
        /\ tick = polls
        /\ Len(queryLog) = polls
        /\ Len(frameLog) = polls

C3_Witness == QObserved /\ pc = "disable" /\ tick = 2

\* ---------------------------------------------------------------- C4
\* 'q' is the first event typed, typed in tick 1 before its input check.
QuitInTick1 ==
    /\ typed # <<>>
    /\ typed[1].ev = KeyQ
    /\ typed[1].tick = 1
    /\ typed[1].polls = 0

\* C4 as stated: with 'q' pressed in tick 1 and the fetch and draw of
\* tick 1 successful, the finished run made one fetch and one render,
\* disabled raw mode and exited with code zero.
C4_QuitOnTick1ExitsZero ==
    (pc = "exited" /\ QuitInTick1 /\ Len(frameLog) >= 1) =>
        /\ tick = 1
        /\ Len(queryLog) = 1
        /\ Len(frameLog) = 1
        /\ disableCalls = 1
        /\ ~rawMode
        /\ ExitCode(result) = 0

\* C4 amended: with 'q' pressed in tick 1 and the fetch and draw of tick 1
\* successful, there is never a second fetch or render; a run that ended
\* without a poll or read error called disable_raw_mode exactly once, and
\* exits zero exactly when that call succeeded (raw mode off).
C4_QuitOnTick1OneCycle ==
    (QuitInTick1 /\ Len(frameLog) >= 1) =>
        /\ tick = 1
        /\ Len(queryLog) = 1
        /\ Len(frameLog) = 1
        /\ (pc = "exited" /\ result \notin {"Err_poll", "Err_read"}) =>
              /\ disableCalls = 1
              /\ result \in {"Ok", "Err_disable_raw"}
              /\ (ExitCode(result) = 0) = ~rawMode

C4_Witness ==
    /\ pc = "exited"
    /\ QuitInTick1
    /\ result = "Ok"
    /\ Len(frameLog) = 1
    /\ ~rawMode

C6_ZeroIffQuit ==
    pc = "exited" => ((ExitCode(result) = 0) = (quitAt > 0))

\* C6 amended: the exit code is zero if and only if the loop was left by
\* the break on the quit key and the following disable_raw_mode
\* succeeded; it is non-zero after every fatal error.
C6_ZeroIffQuitAndRestored ==
    pc = "exited" =>
        /\ (ExitCode(result) = 0) = (quitAt > 0 /\ disableCalls = 1 /\ ~rawMode)
        /\ (result # "Ok" => ExitCode(result) \in {1, 101})
        /\ (quitAt = 0 => result # "Ok")

C6_Witness ==
    pc = "exited" /\ quitAt > 0 /\ result = "Err_disable_raw" /\ rawMode

\* ---------------------------------------------------------------- C7
\* C7: in the loop the steps come in the order fetch, draw, wait, poll
\* (, read): at every position the numbers of started ticks, finished
\* queries, frames, waits and polls are those of that order, at most one
\* query is in flight, and frame i shows exactly the rows made from the
\* result of query i.
C7_TickOrder ==
    /\ (pc = "fetch" =>
          /\ Len(queryLog) = tick /\ Len(frameLog) = tick
          /\ waits = tick /\ polls = tick)
    /\ (pc = "query" =>
          /\ Len(queryLog) = tick - 1 /\ Len(frameLog) = tick - 1
          /\ waits = tick - 1 /\ polls = tick - 1)
    /\ (pc = "draw" =>
          /\ Len(queryLog) = tick /\ Len(frameLog) = tick - 1
          /\ waits = tick - 1 /\ polls = tick - 1
          /\ rows = FetchRows(queryLog[tick].recs))
    /\ (pc = "wait" =>
          /\ Len(queryLog) = tick /\ Len(frameLog) = tick
          /\ waits = tick - 1 /\ polls = tick - 1)
    /\ (pc = "poll" =>
          /\ Len(queryLog) = tick /\ Len(frameLog) = tick
          /\ waits = tick /\ polls = tick - 1)
    /\ (pc \in {"read", "disable"} =>
          /\ Len(queryLog) = tick /\ Len(frameLog) = tick
          /\ waits = tick /\ polls = tick)
    /\ tick - Len(queryLog) \in {0, 1}
    /\ Len(queryLog) - Len(frameLog) \in {0, 1}
    /\ \A i \in 1..Len(frameLog) :
         /\ QuerySucceeded(queryLog[i])
         /\ frameLog[i] = TableFrame(FetchRows(queryLog[i].recs))

C7_Witness ==
    /\ pc = "read"
    /\ tick = 2
    /\ Len(frameLog) = 2
    /\ frameLog[1].rows # frameLog[2].rows
    /\ frameLog[2].rows # <<>>

\* ---------------------------------------------------------------- C8
\* C8: a failed fetch is the last thing the loop did: it is the last
\* query, no frame was drawn for its tick or later, no further tick was
\* started and main has returned that failure.
C8_NoPartialFailure ==
    \A i \in 1..Len(queryLog) :
        ~QuerySucceeded(queryLog[i]) =>
            /\ i = Len(queryLog)
            /\ tick = i
            /\ Len(frameLog) = i - 1
            /\ pc = "exited"
            /\ result \in FetchFailures

C8_Witness ==
    /\ pc = "exited"
    /\ Len(queryLog) = 2
    /\ ~queryLog[2].ok
    /\ Len(frameLog) = 1

\* ---------------------------------------------------------------- C9
\* A 'q' waits in the queue while the loop runs, at a place the loop
\* reaches within MaxTicks iterations (one event is read per iteration).
QuitPending ==
    /\ InLoop
    /\ \E k \in 1..Len(input) :
         /\ input[k] = KeyQ
         /\ tick + k <= MaxTicks + (IF pc = "fetch" THEN 0 ELSE 1)

\* C9 as stated: a pending 'q' leads to the loop reading it and the
\* process ending, unless a fetch or a draw fails.
C9_QuitNeverMissed ==
    QuitPending ~>
        \/ (quitAt > 0 /\ QObserved /\ pc = "exited")
        \/ result \in FetchFailures \cup {"Err_draw"}

\* C9 amended: a pending 'q' leads to the loop reading it and the process
\* ending, unless a fetch, a draw, an event::poll or an event::read fails.
C9_QuitObservedUnlessFatal ==
    QuitPending ~>
        \/ (quitAt > 0 /\ QObserved /\ pc = "exited")
        \/ result \in FetchFailures \cup {"Err_draw", "Err_poll", "Err_read"}

C9_Witness ==
    /\ pc = "exited"
    /\ quitAt = 2
    /\ Len(typed) = 2
    /\ typed[1].ev # KeyQ
    /\ typed[2].ev = KeyQ
    /\ typed[2].tick = 1

\* --------------------------------------------------------------- C10
\* C10: a successful event::read of anything but the key 'q' removes
\* that event from the queue and goes back to the fetch; raw mode, the
\* terminal, the connection and its task are as before and no break is
\* taken.
C10_OtherInputInert ==
    [][(pc = "read" /\ pc' # "read" /\ result' = "running"
            /\ Head(input) # KeyQ) =>
          /\ input' = Tail(input)
          /\ pc' = "fetch"
          /\ quitAt' = quitAt
          /\ UNCHANGED <<rawMode, terminal, conn, connTask, enableCalls,
                         disableCalls, queryLog, frameLog, tick>>]_vars

C10_Witness ==
    /\ pc = "query"
    /\ tick = 2
    /\ Consumed # <<>>
    /\ Consumed[1].ev = Resize
    /\ rawMode

\* --------------------------------------------------------------- C11
\* C11: the end of the connection task is a step of its own that leaves
\* main where it is; from then on the task stays ended, the client handle
\* is never replaced and connect is not reached again; and the next time
\* main issues a fetch the query is refused, nothing is drawn and main
\* returns the query error.
C11_TaskEndSeenByNextFetch ==
    [][/\ (connTask = "running" /\ connTask' = "ended") =>
             /\ pc' = pc
             /\ result' = result
             /\ UNCHANGED <<tick, rows, queryLog, frameLog, waits, polls,
                            input, rawMode, conn, now>>
       /\ (connTask = "ended") =>
             /\ connTask' = "ended"
             /\ conn' = conn
             /\ pc' # "connect"
       /\ (connTask = "ended" /\ pc = "fetch" /\ pc' # "fetch") =>
             /\ pc' = "exited"
             /\ result' = "Err_query"
             /\ queryLog' = Append(queryLog, QueryErr)
             /\ frameLog' = frameLog]_vars

C11_Witness ==
    /\ pc = "exited"
    /\ connTask = "ended"
    /\ result = "Err_query"
    /\ tick = 2
    /\ waits = 1
    /\ polls = 1
    /\ Len(frameLog) = 1
    /\ queryLog[2] = QueryErr

\* --------------------------------------------------------------- C12
\* The records of the query whose rows are being drawn.
LastRecs == queryLog[Len(queryLog)].recs

\* C12: after a successful fetch there is one row per record of the
\* result and every row has ColumnCount fields, as many as there are
\* headers and width constraints, whichever numeric fields were null.
C12_RowArity ==
    pc = "draw" =>
        /\ Len(rows) = Len(LastRecs)
        /\ \A i \in 1..Len(rows) : Len(rows[i]) = ColumnCount
        /\ Len(Header) = ColumnCount
        /\ Len(Widths) = ColumnCount

C12_Witness ==
    /\ pc = "draw"
    /\ Len(rows) = 1
    /\ \A j \in 1..Len(NumericColumns) : LastRecs[1][NumericColumns[j]] = None

\* --------------------------------------------------------------- C13
\* The decimal text of the values the sampled records hold.
DecimalText(v) ==
    CASE v = 0 -> "0" [] v = 2 -> "2" [] v = 3 -> "3" [] v = 7 -> "7"
      [] v = 9 -> "9" [] v = 10 -> "10" [] v = 38 -> "38" [] v = 45 -> "45"
      [] v = 120 -> "120" [] v = 415 -> "415"
      [] v = 2147483647 -> "2147483647"

\* C13: in the rows of a successful fetch, every numeric column shows "0"
\* where the source field is null and the decimal text of the value
\* where it is not.
C13_NullNumericIsZero ==
    pc = "draw" =>
        \A i \in 1..Len(LastRecs) : \A j \in 1..Len(NumericColumns) :
            LET field == LastRecs[i][NumericColumns[j]]
            IN  rows[i][j + 2] =
                    IF field = None THEN "0" ELSE DecimalText(field[1])

\* Three records, one null numeric field among them.
C13_Witness ==
    /\ pc = "draw"
    /\ LastRecs = <<RecFull, RecFull, RecOneNull>>
    /\ Len(rows) = 3
    /\ rows[3][8] = "0"
    /\ rows[1][8] = "2147483647"

\* --------------------------------------------------------------- C14
HasNullString(recs) ==
    \E i \in 1..Len(recs) : recs[i].schemaname = None \/ recs[i].relname = None

\* C14: a query result with a null schemaname or relname is still fetched
\* successfully: main does not end in the fetch of such a result, and
\* once its tick is drawn the frame shows the empty string in that field.
C14_NullStringDegrades ==
    \A k \in 1..Len(queryLog) :
        (queryLog[k].ok /\ HasNullString(queryLog[k].recs)) =>
            /\ result \notin FetchFailures
            /\ k <= Len(frameLog) =>
                 \A i \in 1..Len(queryLog[k].recs) :
                    /\ queryLog[k].recs[i].schemaname = None
                          => frameLog[k].rows[i][1] = ""
                    /\ queryLog[k].recs[i].relname = None
                          => frameLog[k].rows[i][2] = ""

\* --------------------------------------------------------------- C15
LastFrame == frameLog[Len(frameLog)]

\* C15: the frame drawn for a fetched result of N records (N within the
\* query's limit) carries one header row of ColumnCount labels and exactly
\* N data rows, row i being made from record i.
C15_FrameHoldsFetchedRows ==
    pc = "wait" =>
        /\ Len(LastRecs) <= QueryLimit
        /\ Len(LastFrame.rows) = Len(LastRecs)
        /\ Len(LastFrame.header) = ColumnCount
        /\ LastFrame.header[1] = "Schema"
        /\ LastFrame.header[ColumnCount] = "Dead Tuples"
        /\ \A i \in 1..Len(LastRecs) :
             /\ LastFrame.rows[i][1] = LastRecs[i].schemaname[1]
             /\ LastFrame.rows[i][2] = LastRecs[i].relname[1]
             /\ LastFrame.rows[i][4] =
                    IF LastRecs[i].n_tup_ins = None THEN "0"
                    ELSE DecimalText(LastRecs[i].n_tup_ins[1])

C15_Witness ==
    /\ pc = "wait"
    /\ Len(LastRecs) = QueryLimit
    /\ Len(LastFrame.rows) = QueryLimit

\* --------------------------------------------------------------- C16
\* C16 as stated: every interval.tick() lasts the full Period, and any two
\* consecutive fetches are at least Period apart.
C16_FullIntervalEveryCycle ==
    /\ \A k \in 1..Len(waitAt) : waitAt[k].to - waitAt[k].from >= Period
    /\ \A i \in 2..Len(fetchAt) : fetchAt[i] - fetchAt[i - 1] >= Period

\* C16 amended: the k-th interval.tick() returns at the later of the
\* instant it was awaited and the k-th instant of the fixed schedule
\* 0, Period, 2*Period, ... counted from the creation of the interval
\* (the clock's zero); so the first wait returns at once, a wait after a
\* cycle that overran its instant returns at once, and fetch k+1 is
\* issued no earlier than (k-1)*Period.
C16_WaitFollowsSchedule ==
    /\ \A k \in 1..Len(waitAt) :
         /\ waitAt[k].to = Max(waitAt[k].from, (k - 1) * Period)
         /\ waitAt[k].to >= waitAt[k].from
    /\ (waitAt # <<>> => waitAt[1].to = waitAt[1].from)
    /\ \A i \in 2..Len(fetchAt) : fetchAt[i] >= (i - 2) * Period
    /\ deadline = Len(waitAt) * Period

C16_Witness ==
    /\ Len(waitAt) = 2
    /\ Len(fetchAt) = 2
    /\ waitAt[1].to = waitAt[1].from
    /\ fetchAt[2] - fetchAt[1] < Period
    /\ waitAt[2].from > Period
    /\ waitAt[2].to = waitAt[2].from

\* --------------------------------------------------------------- C17
\* C17: event::poll is called once per iteration, after interval.tick();
\* it returns within PollWindow and leaves the queue alone; event::read is
\* reached only with an event pending and takes exactly the oldest one,
\* so no more events are consumed than polls were made; a poll that finds
\* nothing lasts the whole window and goes on to the next fetch.
C17_OnePollPerTick ==
    /\ [](/\ polls <= waits
          /\ waits <= tick
          /\ tick - polls \in {0, 1}
          /\ Len(Consumed) <= polls
          /\ (pc = "read" => input # <<>>))
    /\ [][/\ (polls' # polls) =>
                /\ pc = "poll"
                /\ polls' = polls + 1
                /\ waits = polls'
                /\ now' - now <= PollWindow
                /\ now' >= now
                /\ input' = input
                /\ (pc' = "read" => input # <<>>)
                /\ (input = <<>> /\ result' = "running") =>
                      (pc' = "fetch" /\ now' = now + PollWindow)
          /\ (Len(input') < Len(input)) =>
                /\ pc = "read"
                /\ input' = Tail(input)
                /\ polls' = polls]_vars

C17_Witness ==
    /\ pc = "read"
    /\ polls = 2
    /\ Len(typed) = 2
    /\ typed[2].polls = 0
    /\ Len(input) = 1
    /\ now = Period

\* --------------------------------------------------------------- C18
\* C18: enable_raw_mode and disable_raw_mode are each called at most
\* once; wherever the loop is (fetch, query, draw, wait, poll, read) the
\* connection is open, the terminal exists, raw mode is on after exactly
\* one enable_raw_mode and disable_raw_mode has not been called; a first
\* fetch implies the connection and the terminal were set up; and
\* disable_raw_mode has been called only once the loop was left by the
\* break.
C18_RawModeScoped ==
    /\ enableCalls <= 1
    /\ disableCalls <= 1
    /\ (rawMode => enableCalls = 1)
    /\ (InLoop =>
          /\ conn = "open"
          /\ connTask \in {"running", "ended"}
          /\ terminal
          /\ rawMode
          /\ enableCalls = 1
          /\ disableCalls = 0)
    /\ (tick >= 1 => conn = "open" /\ terminal /\ enableCalls = 1)
    /\ (disableCalls = 1 => pc = "exited" /\ quitAt > 0 /\ quitAt = tick)

C18_Witness ==
    /\ pc = "exited"
    /\ enableCalls = 1
    /\ disableCalls = 1
    /\ ~rawMode
    /\ tick = 2
====
